---- MODULE Spec2Model ----
(***************************************************************************)
(* Model of the World coordinator (source/client/game/World.ts): the       *)
(* entity registry, the priority-ordered system list, the scene root, the  *)
(* lifecycle flags and the four scheduling passes.  Every World method is  *)
(* an operator from a world record to a world record, so that a hook that  *)
(* calls back into the world during a pass is the same operator applied in *)
(* the middle of the pass.  The last part models the music crossfade of    *)
(* the audio collaborator (AudioManager.crossfadeMusic), whose calls are   *)
(* suspended at an await and may overlap.                                  *)
(***************************************************************************)
EXTENDS Integers, Sequences, FiniteSets, TLC

\* ------------------------------------------------------------------ bounds
MaxEnt == 3
MaxSys == 3
MaxSubs == 2
MaxTracks == 3
MaxCalls == 3

EntIds == 1..MaxEnt
SysIds == 1..MaxSys
NoEnt == 0
NoSys == 0
Dts == {16, 33}
Tracks == 1..MaxTracks
NoTrack == 0

\* ------------------------------------------------- fixed object attributes
\* entity.name, given at construction: objects 1 and 3 carry the same name.
EName(e) == IF e % 2 = 1 THEN "a" ELSE "b"

\* system.priority, given at construction (lower runs first); 2 and 3 tie.
PrioTable == <<20, 10, 10, 30>>
Priority(s) == PrioTable[((s - 1) % Len(PrioTable)) + 1]

\* system.name, given at construction: two instances of one system class
\* (objects 1 and 3) carry the same name
SName(s) == IF s % 2 = 1 THEN "DummyLookupSystem" ELSE "OtherSystem"

\* the optional hooks a system object exposes
HasFixedUpdate(s) == s % 2 = 0
HasPreRender(s) == s % 3 # 0
HasPostRender(s) == s % 3 # 1

\* system.checkEntityCompatibility(entity): a pure predicate of the entity
Compat(s, e) ==
  CASE s % 3 = 1 -> TRUE
    [] s % 3 = 2 -> EName(e) = "a"
    [] OTHER -> EName(e) = "b"

\* ------------------------------------------------------------------- state
VARIABLES
  entities,     \* World.entities: Map in insertion order, <<[key, ent], ...>>
  systems,      \* World.systems: array of system objects
  scene,        \* World.scene.children: nodes mounted on the scene root
  active,       \* World.active
  initialized,  \* World.initialized
  paused,       \* World.paused
  eActive,      \* entity.active, per entity object
  eInit,        \* history: initialize() was called on the entity since it
                \* entered the registry
  eParent,      \* entity.parent (NoEnt for a root)
  eChildren,    \* entity.children, ordered
  sEnabled,     \* system.enabled
  sInit,        \* history: initialize() was called on the system since it
                \* entered the system list
  sWorld,       \* system.world back-reference (0 none, 1 this world,
                \* 2 the second world)
  tracked,      \* system's tracked entity subset
  subs,         \* handlers subscribed to EVENT_UPDATE on the event bus
  destroyed,    \* history: destroy() has been called on this world
  op,           \* the last World method called from outside
  ret,          \* its return value
  thrown,       \* whether it ended by an exception leaving the method
  trace,        \* the hook calls and bus calls it made, in order
  pre,          \* the registry keys and system list when it was called
  restored,     \* a second, fresh world after fromJSON(toJSON()) of this one
  systems2,     \* World.systems of a second World object of the application
  audio,        \* the AudioManager, its music sounds and its crossfadeMusic
                \* calls suspended at their await
  expect        \* history: the pause/resume event that keeps the published
                \* events alternating from a first pause ("broken" once an
                \* event was published out of turn)

vars == <<entities, systems, scene, active, initialized, paused, eActive,
          eInit, eParent, eChildren, sEnabled, sInit, sWorld, tracked, subs,
          destroyed, op, ret, thrown, trace, pre, restored, systems2, audio,
          expect>>

\* every variable but the audio collaborator
worldVars == <<entities, systems, scene, active, initialized, paused, eActive,
               eInit, eParent, eChildren, sEnabled, sInit, sWorld, tracked,
               subs, destroyed, op, ret, thrown, trace, pre, restored,
               systems2, expect>>

\* The world and the objects it reaches, as one record.
W ==
  [id |-> 1, entities |-> entities, systems |-> systems, scene |-> scene,
   active |-> active, initialized |-> initialized, paused |-> paused,
   eActive |-> eActive, eInit |-> eInit, eParent |-> eParent,
   eChildren |-> eChildren, sEnabled |-> sEnabled, sInit |-> sInit,
   sWorld |-> sWorld, tracked |-> tracked, subs |-> subs,
   ret |-> FALSE, thrown |-> FALSE, trace |-> <<>>]

\* A world right after construction, with every object pristine.
FreshWorld ==
  [id |-> 1, entities |-> <<>>, systems |-> <<>>, scene |-> <<>>,
   active |-> TRUE, initialized |-> FALSE, paused |-> FALSE,
   eActive |-> [e \in EntIds |-> TRUE], eInit |-> [e \in EntIds |-> FALSE],
   eParent |-> [e \in EntIds |-> NoEnt],
   eChildren |-> [e \in EntIds |-> <<>>],
   sEnabled |-> [s \in SysIds |-> TRUE], sInit |-> [s \in SysIds |-> FALSE],
   sWorld |-> [s \in SysIds |-> 0], tracked |-> [s \in SysIds |-> {}],
   subs |-> 0, ret |-> FALSE, thrown |-> FALSE, trace |-> <<>>]

\* ----------------------------------------------------------------- helpers
Range(q) == {q[i] : i \in 1..Len(q)}

SeqWithout(q, x) == SelectSeq(q, LAMBDA y : y # x)

Call(w, c, id, arg) == [w EXCEPT !.trace = Append(@, <<c, id, arg>>)]

\* Map.has / Map.get / Map.set / Map.delete on the insertion-ordered registry
MapHas(m, k) == \E i \in 1..Len(m) : m[i].key = k

MapGet(m, k) ==
  IF MapHas(m, k) THEN m[CHOOSE i \in 1..Len(m) : m[i].key = k].ent ELSE NoEnt

MapSet(m, k, v) ==
  IF MapHas(m, k)
  THEN [i \in 1..Len(m) |-> IF m[i].key = k THEN [key |-> k, ent |-> v] ELSE m[i]]
  ELSE Append(m, [key |-> k, ent |-> v])

MapDelete(m, k) == SelectSeq(m, LAMBDA r : r.key # k)

MapKeys(m) == [i \in 1..Len(m) |-> m[i].key]

MapValues(m) == [i \in 1..Len(m) |-> m[i].ent]

Registered(w) == Range(MapValues(w.entities))

\* Object3D.add: a node has one parent, so a node already mounted is moved
SceneAdd(sc, n) == Append(SeqWithout(sc, n), n)

\* Object3D.remove
SceneRemove(sc, n) == SeqWithout(sc, n)

\* BaseSystem.addEntity / removeEntity: mutate the tracked subset
SystemAddEntity(w, s, e) == [w EXCEPT !.tracked[s] = @ \cup {e}]

SystemRemoveEntity(w, s, e) ==
  Call([w EXCEPT !.tracked[s] = @ \ {e}], "sys.removeEntity", s, e)

\* BaseSystem.initialize / destroy
SystemInitialize(w, s) ==
  Call([w EXCEPT !.sInit[s] = TRUE], "sys.initialize", s, 0)

SystemDestroy(w, s) ==
  Call([w EXCEPT !.tracked[s] = {}], "sys.destroy", s, 0)

\* BaseEntity.initialize
EntityInitialize(w, e) ==
  Call([w EXCEPT !.eInit[e] = TRUE], "ent.initialize", e, 0)

\* --------------------------------------------------- World: entity registry
RECURSIVE OfferToSystems(_, _, _)
\* addEntity's loop: every system of the list whose predicate accepts e adds it
OfferToSystems(w, e, i) ==
  IF i > Len(w.systems) THEN w
  ELSE LET s == w.systems[i]
       IN OfferToSystems(IF Compat(s, e) THEN SystemAddEntity(w, s, e) ELSE w,
                         e, i + 1)

\* addEntity without the duplicate-name guard
AddEntityNoGuard(w, e) ==
  LET w1 == [w EXCEPT !.entities = MapSet(@, EName(e), e),
                      !.scene = SceneAdd(@, e)]
      w2 == OfferToSystems(w1, e, 1)
  IN IF w2.initialized THEN EntityInitialize(w2, e) ELSE w2

\* addEntity that leaves a late entity uninitialized
AddEntityNoLateInit(w, e) ==
  IF MapHas(w.entities, EName(e)) THEN w
  ELSE LET w1 == [w EXCEPT !.entities = MapSet(@, EName(e), e),
                           !.scene = SceneAdd(@, e)]
       IN OfferToSystems(w1, e, 1)

\* World.addEntity(entity)
AddEntityOp(w, e) ==
  IF MapHas(w.entities, EName(e)) THEN w
  ELSE LET w1 == [w EXCEPT !.entities = MapSet(@, EName(e), e),
                           !.scene = SceneAdd(@, e)]
           w2 == OfferToSystems(w1, e, 1)
       IN IF w2.initialized THEN EntityInitialize(w2, e) ELSE w2

RECURSIVE DropFromSystems(_, _, _)
\* removeEntity's loop: every system of the list drops e, compatible or not
DropFromSystems(w, e, i) ==
  IF i > Len(w.systems) THEN w
  ELSE DropFromSystems(SystemRemoveEntity(w, w.systems[i], e), e, i + 1)

\* the id removeEntity looks up: the string itself, or the object's name
EntityIdOf(entityOrId) ==
  IF entityOrId.t = "id" THEN entityOrId.id ELSE EName(entityOrId.ent)

\* removeEntity that forgets to tell the systems
RemoveEntityKeepsTracked(w, entityOrId) ==
  LET id == EntityIdOf(entityOrId)
      entity == MapGet(w.entities, id)
  IN IF entity = NoEnt THEN [w EXCEPT !.ret = FALSE]
     ELSE [w EXCEPT !.scene = SceneRemove(@, entity),
                    !.entities = MapDelete(@, id), !.ret = TRUE]

RECURSIVE DropFromAccepting(_, _, _)
\* a removal loop gated by the compatibility predicate, like addEntity's
DropFromAccepting(w, e, i) ==
  IF i > Len(w.systems) THEN w
  ELSE LET s == w.systems[i]
       IN DropFromAccepting(IF Compat(s, e) THEN SystemRemoveEntity(w, s, e)
                            ELSE w, e, i + 1)

\* removeEntity that notifies only the systems whose predicate accepts
RemoveEntityGated(w, entityOrId) ==
  LET id == EntityIdOf(entityOrId)
      entity == MapGet(w.entities, id)
  IN IF entity = NoEnt THEN [w EXCEPT !.ret = FALSE]
     ELSE LET w1 == [w EXCEPT !.scene = SceneRemove(@, entity)]
              w2 == DropFromAccepting(w1, entity, 1)
          IN [w2 EXCEPT !.entities = MapDelete(@, id), !.ret = TRUE]

\* World.removeEntity(entityOrId)
RemoveEntityOp(w, entityOrId) ==
  LET id == EntityIdOf(entityOrId)
      entity == MapGet(w.entities, id)
  IN IF entity = NoEnt THEN [w EXCEPT !.ret = FALSE]
     ELSE LET w1 == [w EXCEPT !.scene = SceneRemove(@, entity)]
              w2 == DropFromSystems(w1, entity, 1)
          IN [w2 EXCEPT !.entities = MapDelete(@, id), !.ret = TRUE]

\* ------------------------------------------------------ World: system list
\* sortSystems that leaves the array as pushed
SortSystemsSkipped(q) == q

RECURSIVE SortSystemsUnstable(_)
\* a sort by priority that takes the last of the systems that tie
SortSystemsUnstable(q) ==
  IF Len(q) <= 1 THEN q
  ELSE LET lowest == CHOOSE p \in {Priority(q[i]) : i \in 1..Len(q)} :
                       \A j \in 1..Len(q) : p <= Priority(q[j])
           k == CHOOSE i \in 1..Len(q) :
                  /\ Priority(q[i]) = lowest
                  /\ \A j \in (i + 1)..Len(q) : Priority(q[j]) # lowest
       IN <<q[k]>> \o SortSystemsUnstable(SubSeq(q, 1, k - 1)
                                            \o SubSeq(q, k + 1, Len(q)))

RECURSIVE SortSystems(_)
\* World.sortSystems: Array.prototype.sort by priority, which is stable
SortSystems(q) ==
  IF Len(q) <= 1 THEN q
  ELSE LET lowest == CHOOSE p \in {Priority(q[i]) : i \in 1..Len(q)} :
                       \A j \in 1..Len(q) : p <= Priority(q[j])
           k == CHOOSE i \in 1..Len(q) :
                  /\ Priority(q[i]) = lowest
                  /\ \A j \in 1..(i - 1) : Priority(q[j]) # lowest
       IN <<q[k]>> \o SortSystems(SubSeq(q, 1, k - 1) \o SubSeq(q, k + 1, Len(q)))

RECURSIVE SeedSystem(_, _, _)
\* addSystem's entities.forEach: s adds every registered entity it accepts
SeedSystem(w, s, i) ==
  IF i > Len(w.entities) THEN w
  ELSE LET e == w.entities[i].ent
       IN SeedSystem(IF Compat(s, e) THEN SystemAddEntity(w, s, e) ELSE w,
                     s, i + 1)

\* addSystem that compares names, the way addEntity does
AddSystemByName(w, s) ==
  IF \E t \in Range(w.systems) : SName(t) = SName(s) THEN w
  ELSE LET w1 == [w EXCEPT !.sWorld[s] = w.id,
                           !.systems = SortSystems(Append(@, s))]
       IN IF w1.initialized THEN SeedSystem(SystemInitialize(w1, s), s, 1)
          ELSE w1

\* World.addSystem(system)
AddSystemOp(w, s) ==
  IF s \in Range(w.systems) THEN w
  ELSE LET w1 == [w EXCEPT !.sWorld[s] = w.id,
                           !.systems = SortSystems(Append(@, s))]
       IN IF w1.initialized THEN SeedSystem(SystemInitialize(w1, s), s, 1)
          ELSE w1

\* removeSystem that fills the hole with the last element
RemoveSystemSwapPop(w, s) ==
  IF s \notin Range(w.systems) THEN [w EXCEPT !.ret = FALSE]
  ELSE LET q == w.systems
           k == CHOOSE i \in 1..Len(q) : q[i] = s
           w1 == [w EXCEPT !.systems =
                    [j \in 1..(Len(q) - 1) |-> IF j = k THEN q[Len(q)] ELSE q[j]]]
       IN [SystemDestroy(w1, s) EXCEPT !.ret = TRUE]

\* World.removeSystem(system)
RemoveSystemOp(w, s) ==
  IF s \notin Range(w.systems) THEN [w EXCEPT !.ret = FALSE]
  ELSE LET w1 == [w EXCEPT !.systems = SeqWithout(@, s)]
       IN [SystemDestroy(w1, s) EXCEPT !.ret = TRUE]

\* ------------------------------------------------------ BaseEntity.destroy
RECURSIVE EntityDestroy(_, _)
RECURSIVE DestroyChildren(_, _)
\* destroys the children still owned, unlinks from the parent and leaves the
\* world (which releases the scene node and mutates the registry)
EntityDestroy(w, e) ==
  LET w0 == Call(w, "ent.destroy", e, 0)
      w1 == DestroyChildren(w0, w0.eChildren[e])
      p == w1.eParent[e]
      w2 == IF p = NoEnt THEN w1
            ELSE [w1 EXCEPT !.eChildren[p] = SeqWithout(@, e),
                            !.eParent[e] = NoEnt]
  IN [RemoveEntityOp(w2, [t |-> "ent", ent |-> e]) EXCEPT !.ret = w.ret]

DestroyChildren(w, q) ==
  IF q = <<>> THEN w ELSE DestroyChildren(EntityDestroy(w, Head(q)), Tail(q))

\* ------------------------------------------------------- scheduling passes
\* What the application's hooks do in one update pass: at most one system's
\* update hook acts on the world (or throws), or one entity's update throws.
NoAct == [k |-> "none", e |-> NoEnt, s |-> NoSys]

HookActs ==
  {[k |-> "throw", e |-> NoEnt, s |-> NoSys]}
    \cup {[k |-> "removeEntity", e |-> e, s |-> NoSys] : e \in EntIds}
    \cup {[k |-> kk, e |-> NoEnt, s |-> s] :
            kk \in {"removeSystem", "addSystem"}, s \in SysIds}

NoHooks == [sys |-> NoSys, act |-> NoAct, ent |-> NoEnt]

Hooks ==
  {NoHooks}
    \cup {[sys |-> s, act |-> a, ent |-> NoEnt] : s \in SysIds, a \in HookActs}
    \cup {[sys |-> NoSys, act |-> NoAct, ent |-> e] : e \in EntIds}

\* the body of a system's update hook: a call back into the world, or a throw
HookEffect(w, a) ==
  CASE a.k = "removeEntity" ->
         [RemoveEntityOp(w, [t |-> "ent", ent |-> a.e]) EXCEPT !.ret = w.ret]
    [] a.k = "removeSystem" -> [RemoveSystemOp(w, a.s) EXCEPT !.ret = w.ret]
    [] a.k = "addSystem" -> AddSystemOp(w, a.s)
    [] a.k = "throw" -> [w EXCEPT !.thrown = TRUE]
    [] OTHER -> w

RECURSIVE UpdateSystems(_, _, _, _)
\* update's for..of over this.systems: the array iterator reads the live
\* array at index i, so a splice or a sort inside a hook shifts what it sees
UpdateSystems(w, i, dt, h) ==
  IF w.thrown \/ i > Len(w.systems) THEN w
  ELSE LET s == w.systems[i]
           w1 == IF ~w.sEnabled[s] THEN w
                 ELSE LET w0 == Call(w, "sys.update", s, dt)
                      IN IF h.sys = s THEN HookEffect(w0, h.act) ELSE w0
       IN UpdateSystems(w1, i + 1, dt, h)

RECURSIVE UpdateEntities(_, _, _, _)
\* update's entities.forEach (the entity hooks modelled leave the Map alone)
UpdateEntities(w, i, dt, h) ==
  IF w.thrown \/ i > Len(w.entities) THEN w
  ELSE LET e == w.entities[i].ent
           w1 == IF ~w.eActive[e] THEN w
                 ELSE LET w0 == Call(w, "ent.update", e, dt)
                      IN IF h.ent = e THEN [w0 EXCEPT !.thrown = TRUE] ELSE w0
       IN UpdateEntities(w1, i + 1, dt, h)

\* update that checks the active flag only
UpdateIgnoringPause(w, dt, h) ==
  IF ~w.active THEN w
  ELSE UpdateEntities(UpdateSystems(w, 1, dt, h), 1, dt, h)

\* update that runs the entity loop before the system loop
UpdateEntitiesFirst(w, dt, h) ==
  IF ~w.active \/ w.paused THEN w
  ELSE UpdateSystems(UpdateEntities(w, 1, dt, h), 1, dt, h)

\* World.update(deltaTime)
UpdateOp(w, dt, h) ==
  IF ~w.active \/ w.paused THEN w
  ELSE UpdateEntities(UpdateSystems(w, 1, dt, h), 1, dt, h)

RECURSIVE HookPass(_, _, _, _)
\* the loop shared by fixedUpdate, preRender and postRender
HookPass(w, i, c, arg) ==
  IF i > Len(w.systems) THEN w
  ELSE LET s == w.systems[i]
           has == CASE c = "sys.fixedUpdate" -> HasFixedUpdate(s)
                    [] c = "sys.preRender" -> HasPreRender(s)
                    [] OTHER -> HasPostRender(s)
       IN HookPass(IF w.sEnabled[s] /\ has THEN Call(w, c, s, arg) ELSE w,
                   i + 1, c, arg)

\* World.fixedUpdate(fixedDeltaTime)
FixedUpdateOp(w, dt) ==
  IF ~w.active \/ w.paused THEN w ELSE HookPass(w, 1, "sys.fixedUpdate", dt)

\* World.preRender()
PreRenderOp(w) ==
  IF ~w.active \/ w.paused THEN w ELSE HookPass(w, 1, "sys.preRender", 0)

\* World.postRender()
PostRenderOp(w) ==
  IF ~w.active \/ w.paused THEN w ELSE HookPass(w, 1, "sys.postRender", 0)

\* ---------------------------------------------------------------- lifecycle
RECURSIVE InitSystems(_, _)
InitSystems(w, i) ==
  IF i > Len(w.systems) THEN w
  ELSE InitSystems(SystemInitialize(w, w.systems[i]), i + 1)

RECURSIVE InitEntities(_, _)
InitEntities(w, i) ==
  IF i > Len(w.entities) THEN w
  ELSE InitEntities(EntityInitialize(w, w.entities[i].ent), i + 1)

\* initialize without the guard on the initialized flag
InitializeNoGuard(w) ==
  LET w1 == InitEntities(InitSystems(w, 1), 1)
      w2 == [w1 EXCEPT !.initialized = TRUE, !.subs = @ + 1]
  IN Call(Call(w2, "bus.on:update", 0, 0), "bus.emit:world.init", 0, 0)

\* World.initialize()
InitializeOp(w) ==
  IF w.initialized THEN w
  ELSE LET w1 == InitEntities(InitSystems(w, 1), 1)
           w2 == [w1 EXCEPT !.initialized = TRUE, !.subs = @ + 1]
       IN Call(Call(w2, "bus.on:update", 0, 0), "bus.emit:world.init", 0, 0)

RECURSIVE DeliverTick(_, _, _)
\* the event bus delivers one EVENT_UPDATE to the k handlers subscribed by
\* initialize(), each of which is this.update bound to the world
DeliverTick(w, k, dt) ==
  IF k = 0 THEN w
  ELSE DeliverTick(UpdateOp(Call(w, "world.update", 0, dt), dt, NoHooks),
                   k - 1, dt)

RECURSIVE DestroyEntities(_, _)
\* destroy's loop over the snapshot of the keys
DestroyEntities(w, ids) ==
  IF ids = <<>> THEN w
  ELSE LET entity == MapGet(w.entities, Head(ids))
       IN DestroyEntities(IF entity # NoEnt THEN EntityDestroy(w, entity) ELSE w,
                          Tail(ids))

RECURSIVE DestroySystems(_, _)
\* destroy's loop over systems.slice()
DestroySystems(w, q) ==
  IF q = <<>> THEN w ELSE DestroySystems(SystemDestroy(w, Head(q)), Tail(q))

\* destroy that leaves the initialized flag set
DestroyKeepsInitialized(w) ==
  LET w1 == DestroyEntities(w, MapKeys(w.entities))
      w2 == [w1 EXCEPT !.entities = <<>>]
      w3 == DestroySystems(w2, w2.systems)
  IN [w3 EXCEPT !.systems = <<>>, !.scene = <<>>, !.active = FALSE]

\* World.destroy()
DestroyOp(w) ==
  LET w1 == DestroyEntities(w, MapKeys(w.entities))
      w2 == [w1 EXCEPT !.entities = <<>>]
      w3 == DestroySystems(w2, w2.systems)
  IN [w3 EXCEPT !.systems = <<>>, !.scene = <<>>,
                !.active = FALSE, !.initialized = FALSE]

\* pause without the guard on the paused flag
PauseNoGuard(w) ==
  Call([w EXCEPT !.paused = TRUE], "bus.emit:world.pause", 0, 0)

\* World.pause()
PauseOp(w) ==
  IF ~w.paused THEN Call([w EXCEPT !.paused = TRUE], "bus.emit:world.pause", 0, 0)
  ELSE w

\* World.resume()
ResumeOp(w) ==
  IF w.paused THEN Call([w EXCEPT !.paused = FALSE], "bus.emit:world.resume", 0, 0)
  ELSE w

\* ------------------------------------------------------ snapshot / restore
\* BaseEntity.toJSON: the entity's own fields and the ids of its children
EntityToJSON(w, e) ==
  [name |-> EName(e), active |-> w.eActive[e],
   children |-> [i \in 1..Len(w.eChildren[e]) |-> EName(w.eChildren[e][i])]]

\* BaseEntity.fromJSON: restores the entity's own fields
EntityFromJSON(w, e, d) == [w EXCEPT !.eActive[e] = d.active]

\* BaseEntity.addChild: the tree link only; a child has one parent
EntityAddChild(w, p, c) ==
  LET old == w.eParent[c]
      w1 == IF old = NoEnt THEN w
            ELSE [w EXCEPT !.eChildren[old] = SeqWithout(@, c)]
  IN [w1 EXCEPT !.eParent[c] = p, !.eChildren[p] = Append(@, c)]

\* World.toJSON(): one top-level entry per registered entity without parent
ToJSONOp(w) ==
  LET roots == SelectSeq(w.entities, LAMBDA r : w.eParent[r.ent] = NoEnt)
  IN [name |-> "BaseWorld", active |-> w.active,
      entities |-> [i \in 1..Len(roots) |->
                      [id |-> roots[i].key, data |-> EntityToJSON(w, roots[i].ent)]]]

\* an entity object no structure refers to, in the state new BaseEntity leaves it
Pristine(w, e) ==
  /\ e \notin Registered(w)
  /\ e \notin Range(w.scene)
  /\ \A s \in SysIds : e \notin w.tracked[s]
  /\ w.eParent[e] = NoEnt
  /\ w.eChildren[e] = <<>>
  /\ w.eActive[e]
  /\ ~w.eInit[e]

\* new BaseEntity(this, name): the first unused object carrying that name
NewEntity(w, name, used) ==
  LET free == {e \in EntIds \ used : Pristine(w, e) /\ EName(e) = name}
  IN IF free = {} THEN NoEnt ELSE CHOOSE e \in free : \A f \in free : e <= f

RECURSIVE ForEachDestroy(_, _)
\* fromJSON's entities.forEach(destroy): a Map iteration visits every live
\* entry once, also when the callback deletes entries
ForEachDestroy(w, visited) ==
  LET left == {i \in 1..Len(w.entities) : w.entities[i].key \notin visited}
  IN IF left = {} THEN w
     ELSE LET i == CHOOSE j \in left : \A k \in left : j <= k
          IN ForEachDestroy(EntityDestroy(w, w.entities[i].ent),
                            visited \cup {w.entities[i].key})

RECURSIVE CreateAll(_, _, _, _, _)
\* fromJSON pass 1: createEntity(entityData.name) for every top-level id;
\* returns the world and entityMap (a sequence of [key, ent]).  A new object
\* is none of the objects old that existed before the call; when the pool of
\* objects is used up the id stays unmapped.
CreateAll(w, ents, i, emap, old) ==
  IF i > Len(ents) THEN [w |-> w, emap |-> emap]
  ELSE LET e == NewEntity(w, ents[i].data.name,
                          old \cup Range(MapValues(emap)))
       IN IF e = NoEnt THEN CreateAll(w, ents, i + 1, emap, old)
          ELSE CreateAll(AddEntityOp(w, e), ents, i + 1,
                         MapSet(emap, ents[i].id, e), old)

RECURSIVE ApplyAll(_, _, _, _)
\* fromJSON pass 2: entity.fromJSON(entityData)
ApplyAll(w, ents, i, emap) ==
  IF i > Len(ents) THEN w
  ELSE LET e == MapGet(emap, ents[i].id)
       IN ApplyAll(IF e # NoEnt THEN EntityFromJSON(w, e, ents[i].data) ELSE w,
                   ents, i + 1, emap)

RECURSIVE LinkChildren(_, _, _, _)
\* fromJSON pass 3, inner loop: addChild for every child id entityMap resolves
LinkChildren(w, p, ids, emap) ==
  IF ids = <<>> THEN w
  ELSE LET c == MapGet(emap, Head(ids))
       IN LinkChildren(IF c # NoEnt THEN EntityAddChild(w, p, c) ELSE w,
                       p, Tail(ids), emap)

RECURSIVE LinkAll(_, _, _, _)
\* fromJSON pass 3
LinkAll(w, ents, i, emap) ==
  IF i > Len(ents) THEN w
  ELSE LET e == MapGet(emap, ents[i].id)
       IN LinkAll(IF e # NoEnt /\ "children" \in DOMAIN ents[i].data
                  THEN LinkChildren(w, e, ents[i].data.children, emap) ELSE w,
                  ents, i + 1, emap)

RECURSIVE RestoreInOnePass(_, _, _, _, _)
\* one loop that creates an entity, applies its data and links the children
\* its list names, as far as they exist by then
RestoreInOnePass(w, ents, i, emap, old) ==
  IF i > Len(ents) THEN w
  ELSE LET e == NewEntity(w, ents[i].data.name,
                          old \cup Range(MapValues(emap)))
           em == MapSet(emap, ents[i].id, e)
           w1 == EntityFromJSON(AddEntityOp(w, e), e, ents[i].data)
           w2 == IF "children" \in DOMAIN ents[i].data
                 THEN LinkChildren(w1, e, ents[i].data.children, em) ELSE w1
       IN IF e = NoEnt THEN RestoreInOnePass(w, ents, i + 1, emap, old)
          ELSE RestoreInOnePass(w2, ents, i + 1, em, old)

\* fromJSON that rebuilds the entities in a single pass
FromJSONSinglePass(w, data) ==
  LET w1 == [w EXCEPT !.active = data.active]
      w2 == ForEachDestroy(w1, {})
  IN RestoreInOnePass(w2, data.entities, 1, <<>>, Registered(w))

\* World.fromJSON(json)
FromJSONOp(w, data) ==
  LET w1 == [w EXCEPT !.active = data.active]
      w2 == ForEachDestroy(w1, {})
      c == CreateAll(w2, data.entities, 1, <<>>, Registered(w))
      w3 == ApplyAll(c.w, data.entities, 1, c.emap)
  IN LinkAll(w3, data.entities, 1, c.emap)

\* ------------------------------------------------------------ AudioManager
\* An AudioManager whose music sounds were created without autoplay: no
\* current music, nothing playing, no crossfadeMusic call in flight.  `last`
\* is history: the key named by the latest crossfadeMusic call.
FreshAudio ==
  [currentMusic |-> NoTrack, isPlaying |-> [t \in Tracks |-> FALSE],
   calls |-> <<>>, last |-> NoTrack]

\* Sound.play(): restarts the audio and marks the sound as playing
SoundPlay(a, t) == [a EXCEPT !.isPlaying[t] = TRUE]

\* Sound.stop()
SoundStop(a, t) == [a EXCEPT !.isPlaying[t] = FALSE]

\* Sound.fadeIn(duration): plays at once, the volume ramp follows
SoundFadeIn(a, t) == SoundPlay(a, t)

\* Sound.fadeOut(duration), up to the returned promise: already resolved
\* when the sound is not playing, else pending until the ramp has ended
SoundFadeOut(a, t) == [resolved |-> ~a.isPlaying[t]]

\* crossfadeMusic from its await to its end: the old sound has been stopped
\* by the fade-out that resolved the promise
CrossfadeResume(a, c) ==
  SoundFadeIn([SoundStop(a, c.old) EXCEPT !.currentMusic = c.key], c.key)

\* AudioManager.crossfadeMusic(newMusicKey), the synchronous part: to its
\* return, or to the await of oldMusic.fadeOut, where the call is suspended
CrossfadeCall(a, key) ==
  LET a1 == [a EXCEPT !.last = key]
  IN IF a1.currentMusic = key THEN a1
     ELSE IF a1.currentMusic # NoTrack
     THEN LET oldMusic == a1.currentMusic
          IN [a1 EXCEPT !.calls =
                Append(@, [key |-> key, old |-> oldMusic,
                           resolved |-> SoundFadeOut(a1, oldMusic).resolved])]
     ELSE SoundFadeIn([a1 EXCEPT !.currentMusic = key], key)

\* the suspended call that continues next: one whose promise is already
\* resolved (a microtask), else the one whose fade-out started first (the
\* calls use the same default duration, so the ramps end in that order)
NextToResume(a) ==
  LET ready == {i \in 1..Len(a.calls) : a.calls[i].resolved}
      pick == IF ready = {} THEN 1..Len(a.calls) ELSE ready
  IN CHOOSE i \in pick : \A j \in pick : i <= j

\* ----------------------------------------------------------------- actions
\* the pause and resume events among the calls of a trace, in order
PubEvents(tr) ==
  LET hits == SelectSeq(tr, LAMBDA x : x[1] \in {"bus.emit:world.pause",
                                                 "bus.emit:world.resume"})
  IN [i \in 1..Len(hits) |->
        IF hits[i][1] = "bus.emit:world.pause" THEN "pause" ELSE "resume"]

RECURSIVE Alternate(_, _)
\* the event expected after the events evs, when x was expected before them
Alternate(x, evs) ==
  IF evs = <<>> THEN x
  ELSE IF Head(evs) # x THEN "broken"
  ELSE Alternate(IF x = "pause" THEN "resume" ELSE "pause", Tail(evs))

Op(n, e, s, id, dt, h) ==
  [name |-> n, e |-> e, s |-> s, id |-> id, dt |-> dt, h |-> h]

\* the state after a call that left the world as r
Commit(r, o) ==
  /\ entities' = r.entities
  /\ systems' = r.systems
  /\ scene' = r.scene
  /\ active' = r.active
  /\ initialized' = r.initialized
  /\ paused' = r.paused
  /\ eActive' = r.eActive
  /\ eInit' = [e \in EntIds |-> r.eInit[e] /\ e \in Registered(r)]
  /\ eParent' = r.eParent
  /\ eChildren' = r.eChildren
  /\ sEnabled' = r.sEnabled
  /\ sInit' = [s \in SysIds |-> r.sInit[s] /\ s \in Range(r.systems)]
  /\ sWorld' = r.sWorld
  /\ tracked' = r.tracked
  /\ subs' = r.subs
  /\ ret' = r.ret
  /\ thrown' = r.thrown
  /\ trace' = r.trace
  /\ op' = o
  /\ pre' = W
  /\ destroyed' = (destroyed \/ o.name = "destroy")
  /\ expect' = Alternate(expect, PubEvents(r.trace))

NoOp == Op("new", NoEnt, NoSys, "", 0, NoHooks)

Init ==
  /\ entities = FreshWorld.entities
  /\ systems = FreshWorld.systems
  /\ scene = FreshWorld.scene
  /\ active = FreshWorld.active
  /\ initialized = FreshWorld.initialized
  /\ paused = FreshWorld.paused
  /\ eActive = FreshWorld.eActive
  /\ eInit = FreshWorld.eInit
  /\ eParent = FreshWorld.eParent
  /\ eChildren = FreshWorld.eChildren
  /\ sEnabled = FreshWorld.sEnabled
  /\ sInit = FreshWorld.sInit
  /\ sWorld = FreshWorld.sWorld
  /\ tracked = FreshWorld.tracked
  /\ subs = FreshWorld.subs
  /\ ret = FALSE
  /\ thrown = FALSE
  /\ trace = <<>>
  /\ op = NoOp
  /\ pre = FreshWorld
  /\ destroyed = FALSE
  /\ restored = FreshWorld
  /\ systems2 = <<>>
  /\ expect = "pause"
  /\ audio = FreshAudio

AddEntity ==
  \E e \in EntIds :
    /\ Commit(AddEntityOp(W, e), Op("addEntity", e, NoSys, "", 0, NoHooks))
    /\ UNCHANGED <<restored, systems2, audio>>

RemoveEntity ==
  \E a \in {[t |-> "id", id |-> EName(e), ent |-> NoEnt] : e \in EntIds}
             \cup {[t |-> "ent", id |-> "", ent |-> e] : e \in EntIds} :
    /\ Commit(RemoveEntityOp(W, a),
              Op("removeEntity", a.ent, NoSys, a.id, 0, NoHooks))
    /\ UNCHANGED <<restored, systems2, audio>>

AddSystem ==
  \E s \in SysIds :
    /\ Commit(AddSystemOp(W, s), Op("addSystem", NoEnt, s, "", 0, NoHooks))
    /\ UNCHANGED <<restored, systems2, audio>>

RemoveSystem ==
  \E s \in SysIds :
    /\ Commit(RemoveSystemOp(W, s), Op("removeSystem", NoEnt, s, "", 0, NoHooks))
    /\ UNCHANGED <<restored, systems2, audio>>

Initialize ==
  /\ initialized \/ subs < MaxSubs
  /\ Commit(InitializeOp(W), Op("initialize", NoEnt, NoSys, "", 0, NoHooks))
  /\ UNCHANGED <<restored, systems2, audio>>

Destroy ==
  /\ Commit(DestroyOp(W), Op("destroy", NoEnt, NoSys, "", 0, NoHooks))
  /\ UNCHANGED <<restored, systems2, audio>>

Pause ==
  /\ Commit(PauseOp(W), Op("pause", NoEnt, NoSys, "", 0, NoHooks))
  /\ UNCHANGED <<restored, systems2, audio>>

Resume ==
  /\ Commit(ResumeOp(W), Op("resume", NoEnt, NoSys, "", 0, NoHooks))
  /\ UNCHANGED <<restored, systems2, audio>>

\* the frame driver publishes one tick on the event bus
Tick ==
  /\ Commit(DeliverTick(W, subs, 16), Op("tick", NoEnt, NoSys, "", 16, NoHooks))
  /\ UNCHANGED <<restored, systems2, audio>>

\* update with hooks that do nothing but run
Update ==
  \E dt \in Dts :
    /\ Commit(UpdateOp(W, dt, NoHooks), Op("update", NoEnt, NoSys, "", dt, NoHooks))
    /\ UNCHANGED <<restored, systems2, audio>>

\* update in which one hook of a registered member calls back or throws
UpdateReentrant ==
  \E h \in Hooks \ {NoHooks} :
    /\ h.sys # NoSys => h.sys \in Range(systems) /\ sEnabled[h.sys]
    /\ h.ent # NoEnt => h.ent \in Registered(W) /\ eActive[h.ent]
    /\ h.act.k = "removeEntity" => h.act.e \in Registered(W)
    /\ h.act.k = "removeSystem" => h.act.s \in Range(systems)
    /\ h.act.k = "addSystem" => h.act.s \notin Range(systems)
    /\ Commit(UpdateOp(W, 16, h), Op("update", NoEnt, NoSys, "", 16, h))
    /\ UNCHANGED <<restored, systems2, audio>>

FixedUpdate ==
  \E dt \in Dts :
    /\ Commit(FixedUpdateOp(W, dt),
              Op("fixedUpdate", NoEnt, NoSys, "", dt, NoHooks))
    /\ UNCHANGED <<restored, systems2, audio>>

PreRender ==
  /\ Commit(PreRenderOp(W), Op("preRender", NoEnt, NoSys, "", 0, NoHooks))
  /\ UNCHANGED <<restored, systems2, audio>>

PostRender ==
  /\ Commit(PostRenderOp(W), Op("postRender", NoEnt, NoSys, "", 0, NoHooks))
  /\ UNCHANGED <<restored, systems2, audio>>

\* the application flips system.enabled
SetEnabled ==
  \E s \in Range(systems) :
    /\ Commit([W EXCEPT !.sEnabled[s] = ~@],
              Op("setEnabled", NoEnt, s, "", 0, NoHooks))
    /\ UNCHANGED <<restored, systems2, audio>>

\* the application flips entity.active
SetActive ==
  \E e \in Registered(W) :
    /\ Commit([W EXCEPT !.eActive[e] = ~@],
              Op("setActive", e, NoSys, "", 0, NoHooks))
    /\ UNCHANGED <<restored, systems2, audio>>

\* the application flips the public field world.active
SetWorldActive ==
  /\ Commit([W EXCEPT !.active = ~@],
            Op("setWorldActive", NoEnt, NoSys, "", 0, NoHooks))
  /\ UNCHANGED <<restored, systems2, audio>>

\* the application links two registered entities: parent.addChild(child)
AddChild ==
  \E p \in Registered(W), c \in Registered(W) :
    /\ p # c
    /\ eParent[c] = NoEnt
    /\ eParent[p] # c
    /\ Commit(EntityAddChild(W, p, c), Op("addChild", c, NoSys, "", 0, NoHooks))
    /\ UNCHANGED <<restored, systems2, audio>>

\* a fresh world restores this world's snapshot: W2.fromJSON(W1.toJSON())
RoundTrip ==
  /\ Commit(W, Op("roundTrip", NoEnt, NoSys, "", 0, NoHooks))
  /\ restored' = FromJSONOp(FreshWorld, ToJSONOp(W))
  /\ UNCHANGED <<systems2, audio>>

\* The snapshots handed to fromJSON: a flat map, in enumeration order, from
\* the ids "a" and "b" to entity data whose children list is absent, empty,
\* or names the other id and/or an id "zz" that is no key of the map.
SnapIds == {"a", "b"}

ChildLists(id) ==
  LET o == IF id = "a" THEN "b" ELSE "a"
  IN {<<>>, <<o>>, <<"zz">>, <<"zz", o>>}

EntryData(id) ==
  {[name |-> id, active |-> act] : act \in BOOLEAN}
    \cup {[name |-> id, active |-> TRUE, children |-> k] : k \in ChildLists(id)}

Entries(id) == {[id |-> id, data |-> d] : d \in EntryData(id)}

\* the ids an entry's children list names
Listed(entry) ==
  IF "children" \in DOMAIN entry.data THEN Range(entry.data.children) ELSE {}

\* no two entries name each other as child (a snapshot describes a forest)
Forest(q) ==
  \A i \in 1..Len(q) : \A j \in 1..Len(q) :
    ~(q[j].id \in Listed(q[i]) /\ q[i].id \in Listed(q[j]))

EntityMaps ==
  {q \in {<<>>}
          \cup {<<x>> : x \in Entries("a") \cup Entries("b")}
          \cup {<<x, y>> : x \in Entries("a"), y \in Entries("b")}
          \cup {<<y, x>> : x \in Entries("a"), y \in Entries("b")} :
     Forest(q)}

Snapshots ==
  {[name |-> "BaseWorld", active |-> TRUE, entities |-> q] : q \in EntityMaps}

\* the pool holds an unused object for every entity the snapshot creates
Restorable(w, data) ==
  LET c == CreateAll(ForEachDestroy(w, {}), data.entities, 1, <<>>,
                     Registered(w))
  IN Len(c.emap) = Len(data.entities)

\* world.fromJSON(snapshot) on this world
FromJSON ==
  \E d \in Snapshots :
    /\ Restorable(W, d)
    /\ Commit(FromJSONOp(W, d),
              [name |-> "fromJSON", e |-> NoEnt, s |-> NoSys, id |-> "",
               dt |-> 0, h |-> NoHooks, data |-> d])
    /\ UNCHANGED <<restored, systems2, audio>>

\* audioManager.crossfadeMusic(key) is called
CrossfadeMusic ==
  \E key \in Tracks :
    /\ Len(audio.calls) < MaxCalls
    /\ audio' = CrossfadeCall(audio, key)
    /\ UNCHANGED worldVars

\* a fade-out ends (or had nothing to fade): it stops the old sound and
\* resolves, and the call awaiting it runs to its end
FadeOutResolves ==
  /\ audio.calls # <<>>
  /\ LET i == NextToResume(audio)
         rest == [audio EXCEPT !.calls = SubSeq(@, 1, i - 1)
                                           \o SubSeq(@, i + 1, Len(@))]
     IN audio' = CrossfadeResume(rest, audio.calls[i])
  /\ UNCHANGED worldVars

\* The second World object: it holds no entity and is not initialized; the
\* system objects, with their fields, are the ones this world is offered.
Other ==
  [FreshWorld EXCEPT !.id = 2, !.systems = systems2, !.sEnabled = sEnabled,
                     !.sInit = sInit, !.sWorld = sWorld, !.tracked = tracked]

\* the state after a call on the second world that left it as r
CommitOther(r, o) ==
  /\ systems2' = r.systems
  /\ sWorld' = r.sWorld
  /\ tracked' = r.tracked
  /\ ret' = r.ret
  /\ thrown' = r.thrown
  /\ trace' = r.trace
  /\ op' = o
  /\ pre' = W
  /\ UNCHANGED <<entities, systems, scene, active, initialized, paused,
                 eActive, eInit, eParent, eChildren, sEnabled, sInit, subs,
                 destroyed, expect>>

\* other.addSystem(system)
OtherAddSystem ==
  \E s \in SysIds :
    /\ CommitOther(AddSystemOp(Other, s),
                   Op("other.addSystem", NoEnt, s, "", 0, NoHooks))
    /\ UNCHANGED <<restored, audio>>

\* other.removeSystem(system)
OtherRemoveSystem ==
  \E s \in SysIds :
    /\ CommitOther(RemoveSystemOp(Other, s),
                   Op("other.removeSystem", NoEnt, s, "", 0, NoHooks))
    /\ UNCHANGED <<restored, audio>>

\* ---------------------------------------------------------- specifications
\* the entity registry and the system list
Next ==
  \/ AddEntity
  \/ RemoveEntity
  \/ AddSystem
  \/ RemoveSystem
  \/ Initialize
  \/ Tick

Spec == Init /\ [][Next]_vars

\* a world that is built, initialized, destroyed and used again
NextLifecycle ==
  \/ AddEntity
  \/ AddSystem
  \/ Initialize
  \/ Destroy

SpecLifecycle == Init /\ [][NextLifecycle]_vars

\* a world built once, with entity trees and pauses, and then torn down
NextTeardown ==
  \/ ~destroyed /\ AddEntity
  \/ ~destroyed /\ AddChild
  \/ ~destroyed /\ AddSystem
  \/ ~destroyed /\ Initialize
  \/ ~destroyed /\ Pause
  \/ ~destroyed /\ Resume
  \/ Destroy

SpecTeardown == Init /\ [][NextTeardown]_vars

\* the state a call sequence leaves, as an initial state
StateAfter(r, o) ==
  /\ entities = r.entities
  /\ systems = r.systems
  /\ scene = r.scene
  /\ active = r.active
  /\ initialized = r.initialized
  /\ paused = r.paused
  /\ eActive = r.eActive
  /\ eInit = r.eInit
  /\ eParent = r.eParent
  /\ eChildren = r.eChildren
  /\ sEnabled = r.sEnabled
  /\ sInit = r.sInit
  /\ sWorld = r.sWorld
  /\ tracked = r.tracked
  /\ subs = r.subs
  /\ ret = r.ret
  /\ thrown = r.thrown
  /\ trace = r.trace
  /\ op = o
  /\ pre = FreshWorld
  /\ destroyed = FALSE
  /\ restored = FreshWorld
  /\ systems2 = <<>>
  /\ expect = "pause"
  /\ audio = FreshAudio

\* new World(); initialize()
InitRunning ==
  StateAfter(InitializeOp(FreshWorld),
             Op("initialize", NoEnt, NoSys, "", 0, NoHooks))

\* new World(); addEntity(1); addEntity(2); initialize()
InitPopulated ==
  StateAfter([InitializeOp(AddEntityOp(AddEntityOp(FreshWorld, 1), 2))
                EXCEPT !.trace = <<>>],
             Op("initialize", NoEnt, NoSys, "", 0, NoHooks))

\* the four passes over a running world whose systems come and go
NextSchedule ==
  \/ AddSystem
  \/ RemoveSystem
  \/ SetEnabled
  \/ SetActive
  \/ Pause
  \/ Resume
  \/ SetWorldActive
  \/ Update
  \/ FixedUpdate
  \/ PreRender
  \/ PostRender

SpecSchedule == InitPopulated /\ [][NextSchedule]_vars

\* update passes over a populated world, with hooks that call back into it
NextReentrant ==
  \/ AddSystem
  \/ SetEnabled
  \/ SetActive
  \/ Update
  \/ UpdateReentrant

SpecReentrant == InitPopulated /\ [][NextReentrant]_vars

\* snapshot and restore of entity forests
NextSnapshot ==
  \/ AddEntity
  \/ AddChild
  \/ SetActive
  \/ RoundTrip

SpecSnapshot == Init /\ [][NextSnapshot]_vars

\* frames over a world that gains entities and systems between frames
NextFrame ==
  \/ AddEntity
  \/ AddSystem
  \/ SetEnabled
  \/ SetActive
  \/ Update

SpecFrame == Init /\ [][NextFrame]_vars

\* a world with entity trees that restores snapshots over its content
NextRestore ==
  \/ AddEntity
  \/ AddChild
  \/ Initialize
  \/ FromJSON

SpecRestore == Init /\ [][NextRestore]_vars

\* membership of the registry and the system list over the life of a world
\* that is destroyed at most once and used again afterwards
NextMembership ==
  \/ AddEntity
  \/ RemoveEntity
  \/ AddSystem
  \/ RemoveSystem
  \/ Initialize
  \/ ~destroyed /\ Destroy

SpecMembership == Init /\ [][NextMembership]_vars

\* crossfadeMusic calls that may overlap
NextAudio ==
  \/ CrossfadeMusic
  \/ FadeOutResolves

SpecAudio == Init /\ [][NextAudio]_vars

\* two worlds of one application that are offered the same system objects
NextTwoWorlds ==
  \/ AddSystem
  \/ RemoveSystem
  \/ OtherAddSystem
  \/ OtherRemoveSystem

SpecTwoWorlds == Init /\ [][NextTwoWorlds]_vars

\* ------------------------------------------------------------ observations
\* the world's own state, without the observation of the last call
Core(r) ==
  [entities |-> r.entities, systems |-> r.systems, scene |-> r.scene,
   active |-> r.active, initialized |-> r.initialized, paused |-> r.paused,
   eActive |-> r.eActive, eInit |-> r.eInit, eParent |-> r.eParent,
   eChildren |-> r.eChildren, sEnabled |-> r.sEnabled, sInit |-> r.sInit,
   sWorld |-> r.sWorld, tracked |-> r.tracked, subs |-> r.subs]

Count(q, x) == Cardinality({i \in 1..Len(q) : q[i] = x})

\* the ids on which call c was made, in the order of the calls
Called(tr, c) ==
  LET hits == SelectSeq(tr, LAMBDA x : x[1] = c)
  IN [i \in 1..Len(hits) |-> hits[i][2]]

PassNames == {"update", "fixedUpdate", "preRender", "postRender"}

HookOf(n) ==
  CASE n = "update" -> "sys.update"
    [] n = "fixedUpdate" -> "sys.fixedUpdate"
    [] n = "preRender" -> "sys.preRender"
    [] OTHER -> "sys.postRender"

\* whether system s of world r takes part in pass n
Participates(r, n, s) ==
  /\ r.sEnabled[s]
  /\ CASE n = "update" -> TRUE
       [] n = "fixedUpdate" -> HasFixedUpdate(s)
       [] n = "preRender" -> HasPreRender(s)
       [] OTHER -> HasPostRender(s)

Ascending(q) ==
  \A i \in 1..Len(q) : \A j \in i..Len(q) : Priority(q[i]) <= Priority(q[j])

\* the last call was a pass on a world that was active and not paused
PassRan == op.name \in PassNames /\ pre.active /\ ~pre.paused

\* ------------------------------------------------------------------ claims

\* C1: the registry holds at most one entity per name key, every registered
\* entity's node is in the scene root exactly once, and no unregistered
\* entity has a node in the scene root.
C1_RegistryMatchesScene ==
  /\ \A i \in 1..Len(entities) : \A j \in 1..Len(entities) :
       entities[i].key = entities[j].key => i = j
  /\ \A e \in Registered(W) : Count(scene, e) = 1
  /\ \A e \in EntIds \ Registered(W) : Count(scene, e) = 0

\* C1 witness: two entities were registered, and removeEntity took one out
C1_Witness ==
  /\ op.name = "removeEntity"
  /\ ret
  /\ Len(pre.entities) = 2
  /\ Len(entities) = 1
  /\ Len(scene) = 1

\* C2: whatever the order in which a system and the entities were registered,
\* and whether or not the world is initialized, a registered system tracks
\* exactly the registered entities its compatibility predicate accepts.
C2_OrderIndependentTracking ==
  \A s \in Range(systems) :
    tracked[s] = {e \in Registered(W) : Compat(s, e)}

\* C3: the system list is sorted by non-decreasing priority, and every pass
\* calls its hook on exactly the participating systems, in list order, which
\* is ascending priority order; systems without the hook are skipped.
C3_PriorityOrder ==
  /\ Ascending(systems)
  /\ PassRan =>
       LET called == Called(trace, HookOf(op.name))
       IN /\ called = SelectSeq(pre.systems,
                                LAMBDA s : Participates(pre, op.name, s))
          /\ Ascending(called)

\* C3 witness: preRender over three systems inserted out of priority order,
\* where the middle one has no preRender hook
C3_Witness ==
  /\ op.name = "preRender"
  /\ systems = <<2, 3, 1>>
  /\ \A s \in Range(systems) : sEnabled[s]
  /\ Called(trace, "sys.preRender") = <<2, 1>>

\* C4: a pass called while the world is paused or inactive calls no hook and
\* changes nothing; a pass called on an active, unpaused world (so also after
\* resume()) calls the hooks of every participating system, and update also
\* updates every active entity.
C4_PausedPassesDoNothing ==
  op.name \in PassNames =>
    IF pre.paused \/ ~pre.active
    THEN trace = <<>> /\ ~thrown /\ Core(W) = Core(pre)
    ELSE /\ Called(trace, HookOf(op.name))
              = SelectSeq(pre.systems, LAMBDA s : Participates(pre, op.name, s))
         /\ op.name = "update" =>
              Called(trace, "ent.update")
                = SelectSeq(MapValues(pre.entities), LAMBDA e : pre.eActive[e])

\* C4 witness: update on a paused world that has enabled systems and active
\* entities to suppress
C4_Witness ==
  /\ op.name = "update"
  /\ pre.paused
  /\ pre.active
  /\ \E s \in Range(systems) : sEnabled[s]
  /\ \E e \in Registered(W) : eActive[e]
  /\ trace = <<>>

\* C5: when a system's update hook removes a registered entity during
\* update, nothing is thrown, every enabled system is still updated once,
\* every other active entity is updated and the removed one is not, and
\* after the call the entity is out of the registry, the scene and every
\* system's tracked subset.
C5_MidFrameEntityRemoval ==
  (PassRan /\ op.name = "update" /\ op.h.act.k = "removeEntity") =>
    LET gone == op.h.act.e
    IN /\ ~thrown
       /\ Called(trace, "sys.update")
            = SelectSeq(pre.systems, LAMBDA s : pre.sEnabled[s])
       /\ Called(trace, "ent.update")
            = SelectSeq(MapValues(pre.entities),
                        LAMBDA e : e # gone /\ pre.eActive[e])
       /\ gone \notin Registered(W)
       /\ Count(scene, gone) = 0
       /\ \A s \in SysIds : gone \notin tracked[s]

\* C5 witness: the second of three systems removed a tracked, active entity
\* and the other entity was still updated
C5_Witness ==
  /\ op.name = "update"
  /\ op.h.act.k = "removeEntity"
  /\ Len(systems) = 3
  /\ op.h.sys = systems[2]
  /\ Len(pre.entities) = 2
  /\ pre.eActive[op.h.act.e]
  /\ \E s \in Range(systems) : op.h.act.e \in pre.tracked[s]
  /\ Len(Called(trace, "ent.update")) = 1

\* C6: when a system's update hook removes or adds a system during update,
\* nothing is thrown and every other enabled system that was registered when
\* the pass started and still is has its update called exactly once.
C6_SystemListMutationTolerated ==
  (PassRan /\ op.name = "update"
     /\ op.h.act.k \in {"removeSystem", "addSystem"}) =>
    /\ ~thrown
    /\ \A s \in (Range(pre.systems) \cap Range(systems)) \ {op.h.sys} :
         pre.sEnabled[s] => Count(Called(trace, "sys.update"), s) = 1

\* C7: a fault in one system's or one entity's update hook does not leave
\* update, and every other enabled system and active entity is still updated.
C7_FaultIsolation ==
  (PassRan /\ op.name = "update"
     /\ (op.h.act.k = "throw" \/ op.h.ent # NoEnt)) =>
    /\ ~thrown
    /\ \A s \in Range(pre.systems) \ {op.h.sys} :
         pre.sEnabled[s] => Count(Called(trace, "sys.update"), s) = 1
    /\ \A e \in Registered(pre) \ {op.h.ent} :
         pre.eActive[e] => Count(Called(trace, "ent.update"), e) = 1

\* C8: destroy() leaves an empty registry, an empty system list, an empty
\* scene root, active = false and initialized = false, having called
\* destroy() on every entity it held and then on every system it held.
C8_DestroyEmptiesWorld ==
  op.name = "destroy" =>
    /\ entities = <<>>
    /\ systems = <<>>
    /\ scene = <<>>
    /\ ~active
    /\ ~initialized
    /\ \A e \in Registered(pre) : Count(Called(trace, "ent.destroy"), e) >= 1
    /\ \A s \in Range(pre.systems) : Count(Called(trace, "sys.destroy"), s) = 1
    /\ \A i \in 1..Len(trace) : \A j \in 1..Len(trace) :
         (trace[i][1] = "ent.destroy" /\ trace[j][1] = "sys.destroy") => i < j

\* C8 witness: destroy() of an initialized, paused world holding a parent
\* with its child and three systems
C8_Witness ==
  /\ op.name = "destroy"
  /\ pre.initialized
  /\ pre.paused
  /\ Len(pre.entities) = 2
  /\ \E e \in Registered(pre) : pre.eParent[e] # NoEnt
  /\ Len(pre.systems) = 3
  /\ Len(Called(trace, "ent.destroy")) = 2
  /\ Len(Called(trace, "sys.destroy")) = 3

\* the entity tree of a world, by entity name
TreeNames(r) == {EName(e) : e \in Registered(r)}

TreeRoots(r) == {EName(e) : e \in {x \in Registered(r) : r.eParent[x] = NoEnt}}

TreeEdges(r) ==
  {<<EName(r.eParent[e]), EName(e)>> :
     e \in {x \in Registered(r) : r.eParent[x] # NoEnt}}

TreeActive(r) == {<<EName(e), r.eActive[e]>> : e \in Registered(r)}

\* C9: a fresh world that restores this world's snapshot has the same entity
\* names, the same roots, the same parent/child edges and the same active
\* flags.
C9_RoundTripIsomorphic ==
  op.name = "roundTrip" =>
    /\ TreeNames(restored) = TreeNames(W)
    /\ TreeRoots(restored) = TreeRoots(W)
    /\ TreeEdges(restored) = TreeEdges(W)
    /\ TreeActive(restored) = TreeActive(W)

\* C10: initialize() called after destroy() is rejected: the world stays
\* uninitialized, no hook runs, nothing is subscribed and nothing published.
C10_InitializeAfterDestroyRejected ==
  (op.name = "initialize" /\ destroyed) =>
    /\ ~initialized
    /\ subs = pre.subs
    /\ trace = <<>>

\* C11: addEntity with an entity whose name is already a registry key is a
\* no-op: the registry still maps the name to the entity registered first,
\* the scene root and every tracked subset are unchanged, the rejected
\* entity's initialize() is not called and nothing is thrown.
C11_DuplicateAddEntityIsNoOp ==
  (op.name = "addEntity" /\ MapHas(pre.entities, EName(op.e))) =>
    /\ MapGet(entities, EName(op.e)) = MapGet(pre.entities, EName(op.e))
    /\ entities = pre.entities
    /\ scene = pre.scene
    /\ tracked = pre.tracked
    /\ Called(trace, "ent.initialize") = <<>>
    /\ ~thrown
    /\ Core(W) = Core(pre)

\* C11 witness: on an initialized world with a system, a second object named
\* like a registered entity was offered and rejected
C11_Witness ==
  /\ op.name = "addEntity"
  /\ pre.initialized
  /\ systems # <<>>
  /\ MapHas(pre.entities, EName(op.e))
  /\ MapGet(pre.entities, EName(op.e)) # op.e
  /\ op.e \notin Registered(W)

\* C12: removeEntity(id) returns true exactly when the registry held an
\* entity under id.  When it did, the entity's node is detached, removeEntity
\* is called with that entity on every system of the list, in list order and
\* whatever the system's predicate says, and the key is erased.  When it did
\* not, the registry, the scene and every tracked subset are unchanged, no
\* call is made and nothing is thrown.
C12_RemoveEntityById ==
  (op.name = "removeEntity" /\ op.e = NoEnt) =>
    LET held == MapHas(pre.entities, op.id)
        gone == MapGet(pre.entities, op.id)
    IN /\ ret = held
       /\ ~thrown
       /\ IF held
          THEN /\ Count(scene, gone) = 0
               /\ trace = [i \in 1..Len(pre.systems) |->
                             <<"sys.removeEntity", pre.systems[i], gone>>]
               /\ \A s \in SysIds : gone \notin tracked[s]
               /\ entities = MapDelete(pre.entities, op.id)
               /\ ~MapHas(entities, op.id)
          ELSE /\ entities = pre.entities
               /\ scene = pre.scene
               /\ tracked = pre.tracked
               /\ trace = <<>>

\* C12 witness: removeEntity("b") took a registered entity out of a world
\* whose list holds a system that rejects it and a system that tracked it
C12_Witness ==
  /\ op.name = "removeEntity"
  /\ op.e = NoEnt
  /\ ret
  /\ \E s \in Range(pre.systems) : ~Compat(s, MapGet(pre.entities, op.id))
  /\ \E s \in Range(pre.systems) : MapGet(pre.entities, op.id) \in pre.tracked[s]
  /\ Len(trace) = Len(pre.systems)

\* C13: the system list never holds the same instance twice.  addSystem of
\* an instance already in the list changes nothing (list, back-references,
\* tracked subsets) and does not call initialize() again; addSystem of any
\* other instance, also one named like a registered system, inserts it.
C13_DuplicateSystemInstanceRejected ==
  /\ \A i \in 1..Len(systems) : \A j \in 1..Len(systems) :
       systems[i] = systems[j] => i = j
  /\ op.name = "addSystem" =>
       IF op.s \in Range(pre.systems)
       THEN /\ systems = pre.systems
            /\ sWorld = pre.sWorld
            /\ tracked = pre.tracked
            /\ trace = <<>>
            /\ Core(W) = Core(pre)
       ELSE /\ Count(systems, op.s) = 1
            /\ Len(systems) = Len(pre.systems) + 1
            /\ Range(systems) = Range(pre.systems) \cup {op.s}

\* C13 witness: on an initialized world with entities, an instance was added
\* again while the list also held a second instance of the same name
C13_Witness ==
  /\ op.name = "addSystem"
  /\ pre.initialized
  /\ entities # <<>>
  /\ op.s \in Range(pre.systems)
  /\ \E t \in Range(pre.systems) : t # op.s /\ SName(t) = SName(op.s)
  /\ systems = pre.systems

\* C14: removeSystem(s) returns true exactly when s was in the system list.
\* Then s is gone from the list, the other systems keep their relative order
\* and s.destroy() is called exactly once; otherwise the list is unchanged
\* and s.destroy() is not called.
C14_RemoveSystem ==
  op.name = "removeSystem" =>
    /\ ret = (op.s \in Range(pre.systems))
    /\ ~thrown
    /\ IF op.s \in Range(pre.systems)
       THEN /\ systems = SeqWithout(pre.systems, op.s)
            /\ op.s \notin Range(systems)
            /\ Count(Called(trace, "sys.destroy"), op.s) = 1
            /\ Len(trace) = 1
       ELSE /\ systems = pre.systems
            /\ Called(trace, "sys.destroy") = <<>>
            /\ Core(W) = Core(pre)

\* C14 witness: the first of three systems was removed and the two that tie
\* on priority stayed in their order
C14_Witness ==
  /\ op.name = "removeSystem"
  /\ ret
  /\ Len(pre.systems) = 3
  /\ pre.systems[1] = op.s
  /\ systems = <<pre.systems[2], pre.systems[3]>>
  /\ Called(trace, "sys.destroy") = <<op.s>>

\* C15: a system instance is in the list of at most one world, and the
\* back-reference of a system in a world's list names that world.
C15_OneOwningWorld ==
  \A s \in SysIds :
    /\ ~(s \in Range(systems) /\ s \in Range(systems2))
    /\ s \in Range(systems) => sWorld[s] = 1
    /\ s \in Range(systems2) => sWorld[s] = 2

\* C16: one update(dt) on an active, unpaused world, with hooks that do not
\* call back into the world, makes exactly these calls in this order: the
\* update of every enabled system in list order, then the update of every
\* active entity in registry insertion order, each once and each with dt.
C16_UpdateOrder ==
  (op.name = "update" /\ op.h = NoHooks /\ pre.active /\ ~pre.paused) =>
    LET ss == SelectSeq(pre.systems, LAMBDA s : pre.sEnabled[s])
        es == SelectSeq(MapValues(pre.entities), LAMBDA e : pre.eActive[e])
    IN /\ trace = [i \in 1..(Len(ss) + Len(es)) |->
                     IF i <= Len(ss) THEN <<"sys.update", ss[i], op.dt>>
                     ELSE <<"ent.update", es[i - Len(ss)], op.dt>>]
       /\ \A s \in Range(pre.systems) :
            Count(Called(trace, "sys.update"), s) = IF pre.sEnabled[s] THEN 1 ELSE 0
       /\ \A e \in Registered(pre) :
            Count(Called(trace, "ent.update"), e) = IF pre.eActive[e] THEN 1 ELSE 0
       /\ ~thrown

\* C16 witness: update(33) on a world whose registry was filled "b" first,
\* with two active entities, a disabled system and two enabled ones
C16_Witness ==
  /\ op.name = "update"
  /\ op.dt = 33
  /\ Len(pre.entities) = 2
  /\ pre.entities[1].key = "b"
  /\ Len(pre.systems) = 3
  /\ ~pre.sEnabled[pre.systems[2]]
  /\ Len(Called(trace, "sys.update")) = 2
  /\ Called(trace, "ent.update") = <<2, MapGet(pre.entities, "a")>>
  /\ Len(trace) = 4

\* C17: while the world is initialized, initialize() has been called on every
\* system of the list and on every registered entity since it was registered.
\* initialize() on an uninitialized world calls it on every system, in list
\* order, and then on every entity, in registry order; on an initialized
\* world addEntity and addSystem call it on the member they accept.
C17_MembersInitialized ==
  /\ initialized =>
       /\ \A s \in Range(systems) : sInit[s]
       /\ \A e \in Registered(W) : eInit[e]
  /\ (op.name = "initialize" /\ ~pre.initialized) =>
       /\ Called(trace, "sys.initialize") = pre.systems
       /\ Called(trace, "ent.initialize") = MapValues(pre.entities)
       /\ \A i \in 1..Len(trace) : \A j \in 1..Len(trace) :
            (trace[i][1] = "sys.initialize" /\ trace[j][1] = "ent.initialize")
              => i < j
  /\ (op.name = "addEntity" /\ pre.initialized
        /\ ~MapHas(pre.entities, EName(op.e))) =>
       Called(trace, "ent.initialize") = <<op.e>>
  /\ (op.name = "addSystem" /\ pre.initialized
        /\ op.s \notin Range(pre.systems)) =>
       Called(trace, "sys.initialize") = <<op.s>>

\* C17 witness: an entity joined an initialized world that already held an
\* entity and two systems, and was initialized by addEntity
C17_Witness ==
  /\ op.name = "addEntity"
  /\ pre.initialized
  /\ Len(pre.entities) = 1
  /\ Len(entities) = 2
  /\ Len(systems) >= 2
  /\ ~pre.eInit[op.e]
  /\ eInit[op.e]

\* C18: initialize() on an initialized world changes nothing and makes no
\* call: no initialize hook runs again, update is not subscribed again and
\* no world-initialized event is published; so one tick delivered to an
\* initialized world invokes World.update exactly once.
C18_InitializeIdempotent ==
  /\ (op.name = "initialize" /\ pre.initialized) =>
       /\ trace = <<>>
       /\ subs = pre.subs
       /\ Core(W) = Core(pre)
  /\ (op.name = "tick" /\ pre.initialized) =>
       Len(Called(trace, "world.update")) = 1

\* C18 witness: initialize() was called again on an initialized world that
\* holds systems and entities
C18_Witness ==
  /\ op.name = "initialize"
  /\ pre.initialized
  /\ Len(systems) >= 2
  /\ entities # <<>>
  /\ subs = 1
  /\ trace = <<>>

\* C19: the pause and resume events published over the life of the world
\* alternate, starting with a pause event: pause() publishes one exactly when
\* it flips paused from false to true, resume() exactly when it flips paused
\* from true to false, and no other call publishes either or changes paused.
\* pause() and resume() change nothing but the paused flag.
C19_PauseResumeAlternate ==
  /\ expect # "broken"
  /\ paused <=> (expect = "resume")
  /\ op.name = "pause" =>
       /\ paused
       /\ PubEvents(trace) = IF pre.paused THEN <<>> ELSE <<"pause">>
       /\ Core([W EXCEPT !.paused = pre.paused]) = Core(pre)
  /\ op.name = "resume" =>
       /\ ~paused
       /\ PubEvents(trace) = IF pre.paused THEN <<"resume">> ELSE <<>>
       /\ Core([W EXCEPT !.paused = pre.paused]) = Core(pre)
  /\ op.name \notin {"pause", "resume"} =>
       /\ PubEvents(trace) = <<>>
       /\ paused = pre.paused

\* C19 witness: pause() on a paused world with systems published nothing
\* and left the world paused
C19_Witness ==
  /\ op.name = "pause"
  /\ pre.paused
  /\ paused
  /\ Len(systems) >= 2
  /\ trace = <<>>
  /\ expect = "resume"

\* C20: fromJSON replaces the content of the world.  No entity registered
\* before the call is registered after it; the registry holds one new entity
\* per entry of the snapshot, under the entry's id and with the entry's
\* active flag; for every entry with a children list, every listed id that is
\* a key of the map is linked as child of the entry's entity, whether the
\* child's entry is enumerated before or after the parent's; an entry without
\* a children list and a listed id that is no key of the map add no edge, and
\* nothing is thrown.
C20_FromJSONReplacesContent ==
  op.name = "fromJSON" =>
    LET ents == op.data.entities
        keys == {ents[i].id : i \in 1..Len(ents)}
    IN /\ ~thrown
       /\ Registered(pre) \cap Registered(W) = {}
       /\ MapKeys(entities) = [i \in 1..Len(ents) |-> ents[i].id]
       /\ \A i \in 1..Len(ents) :
            LET p == MapGet(entities, ents[i].id)
            IN /\ eActive[p] = ents[i].data.active
               /\ \A c \in Listed(ents[i]) \cap keys :
                    /\ eParent[MapGet(entities, c)] = p
                    /\ Count(eChildren[p], MapGet(entities, c)) = 1
               /\ Range(eChildren[p])
                    = {MapGet(entities, c) : c \in Listed(ents[i]) \cap keys}

\* C20 witness: a world holding an entity "a" restored a snapshot whose first
\* entry "a" lists the unknown id "zz" and then "b", and whose second entry
\* "b" has no children list
C20_Witness ==
  /\ op.name = "fromJSON"
  /\ Registered(pre) # {}
  /\ Len(op.data.entities) = 2
  /\ op.data.entities[1].id = "a"
  /\ Listed(op.data.entities[1]) = {"zz", "b"}
  /\ "children" \notin DOMAIN op.data.entities[2].data
  /\ MapGet(entities, "a") \notin Registered(pre)
  /\ eParent[MapGet(entities, "b")] = MapGet(entities, "a")

\* the place of x in a sequence that holds it once
Pos(q, x) == CHOOSE i \in 1..Len(q) : q[i] = x

\* C21: systems of equal priority stay in the order in which they were
\* added.  An accepted addSystem puts the new system behind every listed
\* system of its priority; no call, insertion or removal of another system
\* included, changes the relative order of two listed systems of the same
\* priority; and every pass calls two such systems in their list order.
C21_TiesKeepInsertionOrder ==
  /\ (op.name = "addSystem" /\ op.s \notin Range(pre.systems)) =>
       \A t \in Range(pre.systems) :
         Priority(t) = Priority(op.s) => Pos(systems, t) < Pos(systems, op.s)
  /\ \A s \in Range(pre.systems) \cap Range(systems) :
       \A t \in Range(pre.systems) \cap Range(systems) :
         (Priority(s) = Priority(t) /\ Pos(pre.systems, s) < Pos(pre.systems, t))
           => Pos(systems, s) < Pos(systems, t)
  /\ PassRan =>
       LET called == Called(trace, HookOf(op.name))
       IN \A s \in Range(called) : \A t \in Range(called) :
            (Priority(s) = Priority(t) /\ Pos(pre.systems, s) < Pos(pre.systems, t))
              => Pos(called, s) < Pos(called, t)

\* C21 witness: system 3 was added, then system 1 of a higher priority
\* number, and then system 2, which ties with 3 and is placed right behind it
C21_Witness ==
  /\ op.name = "addSystem"
  /\ op.s = 2
  /\ pre.systems = <<3, 1>>
  /\ Priority(2) = Priority(3)
  /\ systems = <<3, 2, 1>>

\* C22: every entity in the tracked subset of a system of the system list is
\* in the registry.
C22_TrackedAreRegistered ==
  \A s \in Range(systems) : tracked[s] \subseteq Registered(W)

\* C22 witness: in a world used again after destroy(), removeEntity took out
\* an entity that a listed system tracked, and that system still tracks the
\* other registered entity
C22_Witness ==
  /\ op.name = "removeEntity"
  /\ ret
  /\ destroyed
  /\ \E s \in Range(systems) :
       /\ (Registered(pre) \ Registered(W)) \cap pre.tracked[s] # {}
       /\ tracked[s] # {}

\* C23: removeEntity called with an entity object that is not registered
\* removes nothing, also when another entity is registered under the
\* object's name: the registry, the scene and the tracked subsets stay as
\* they were and the call returns false.
C23_RemoveEntityByObjectIdentity ==
  (op.name = "removeEntity" /\ op.e # NoEnt /\ op.e \notin Registered(pre)) =>
    /\ ~ret
    /\ entities = pre.entities
    /\ scene = pre.scene
    /\ tracked = pre.tracked

\* C24: once every crossfadeMusic call has completed, currentMusic is the
\* track named by the last call and it is the only track left playing.
C24_CrossfadeEndsOnLastTrack ==
  (audio.calls = <<>> /\ audio.last # NoTrack) =>
    /\ audio.currentMusic = audio.last
    /\ \A t \in Tracks : audio.isPlaying[t] <=> (t = audio.last)

====
